---------------------------- MODULE Spec2Model ----------------------------
(***************************************************************************)
(* The upload / processing / review workflow of thai-doc-insight.          *)
(*                                                                         *)
(* The repository holds two versions of the top-level page:                *)
(*   variant "A"  the single-component Index of part_000, lines 15-362,    *)
(*                talking to the /api/... JSON endpoints;                  *)
(*   variant "B"  the Index of part_000, lines 378-428, which mounts       *)
(*                FileUpload (part_001), ProcessingStatus (part_002) and   *)
(*                ResultsReview (src/components/ResultsReview.tsx).        *)
(* Init picks the variant; every action is guarded by the variant and by   *)
(* the condition under which its control is rendered.                      *)
(* analyzeText of variant A (part_000, lines 120-158) is called by no       *)
(* control and by no other function, so no action runs it.                 *)
(*                                                                         *)
(* Strings whose characters the code inspects (file names, MIME types)     *)
(* are sequences of one-character strings.  A value that may be null is a  *)
(* set: {} is null, {v} is the value v.                                    *)
(***************************************************************************)
EXTENDS Integers, Sequences, FiniteSets, Bags, TLC

\* a bag with one more, or one less, copy of e
BagAdd(bag, e) == bag (+) SetToBag({ e })
BagRemove(bag, e) == bag (-) SetToBag({ e })

Null == {}
Some(v) == {v}
The(s) == CHOOSE v \in s : TRUE

(***************************************************************************)
(* Bounds of the model.                                                    *)
(***************************************************************************)
\* longest pages_data array an /api/extract response carries
MaxPages == 2
\* asynchronous operations of the review stage outstanding at once: /analyze
\* and download fetches in flight and analyzeAllPages delays pending
MaxPending == 2
\* of these, download fetches in flight at once
MaxDownloads == 1
\* progress intervals of FileUpload alive at once
MaxIntervals == 1

(***************************************************************************)
(* JavaScript string built-ins, on sequences of characters.                *)
(***************************************************************************)
UpperChars == <<"A","B","C","D","E","F","G","H","I","J","K","L","M",
                "N","O","P","Q","R","S","T","U","V","W","X","Y","Z">>
LowerChars == <<"a","b","c","d","e","f","g","h","i","j","k","l","m",
                "n","o","p","q","r","s","t","u","v","w","x","y","z">>

toLowerChar(c) ==
    IF \E i \in 1..Len(UpperChars) : UpperChars[i] = c
    THEN LowerChars[CHOOSE i \in 1..Len(UpperChars) : UpperChars[i] = c]
    ELSE c

toLowerCase(s) == [i \in 1..Len(s) |-> toLowerChar(s[i])]

endsWith(s, suffix) ==
    /\ Len(s) >= Len(suffix)
    /\ SubSeq(s, Len(s) - Len(suffix) + 1, Len(s)) = suffix

\* the positions at which sub occurs in s
Occurrences(s, sub) ==
    { i \in 1..(Len(s) - Len(sub) + 1) : SubSeq(s, i, i + Len(sub) - 1) = sub }

includes(s, sub) == Occurrences(s, sub) # {}

\* String.prototype.replace with a string pattern: the first occurrence only
replace(s, pat, rep) ==
    IF Occurrences(s, pat) = {}
    THEN s
    ELSE LET i == CHOOSE k \in Occurrences(s, pat) :
                      \A j \in Occurrences(s, pat) : k <= j
         IN  SubSeq(s, 1, i - 1) \o rep \o SubSeq(s, i + Len(pat), Len(s))

\* a || b on strings: the empty (or missing) string is falsy
JsOr(a, b) == IF a = "" THEN b ELSE a

DotPdf == <<".","p","d","f">>
Pdf == <<"p","d","f">>

(***************************************************************************)
(* The files a user can pick or drop: name, MIME type (File.type, which    *)
(* the browser derives from the platform's type registry and which is      *)
(* empty when the platform knows none) and size in bytes.                  *)
(***************************************************************************)
MaxFileSize == 50 * 1024 * 1024

NameDocPdf == <<"d",".","p","d","f">>
NameUpperPdf == <<"D",".","P","D","F">>
NamePng == <<"i",".","p","n","g">>
NamePdfGz == <<"d",".","p","d","f",".","g","z">>
NameTxt == <<"n",".","t","x","t">>

TypePdf == <<"a","p","p","l","i","c","a","t","i","o","n","/","p","d","f">>
TypePng == <<"i","m","a","g","e","/","p","n","g">>
TypeGzPdf == <<"a","p","p","l","i","c","a","t","i","o","n","/",
               "x","-","g","z","p","d","f">>
TypeText == <<"t","e","x","t","/","p","l","a","i","n">>
TypeUnknown == <<>>

NameTypes ==
    { <<NameDocPdf, TypePdf>>, <<NameUpperPdf, TypeUnknown>>,
      <<NamePng, TypePng>>, <<NamePdfGz, TypeGzPdf>>, <<NameTxt, TypeText>> }

Sizes == { 1, MaxFileSize, MaxFileSize + 1 }

Files == { [name |-> nt[1], type |-> nt[2], size |-> s] :
             nt \in NameTypes, s \in Sizes }

\* the file names the server may report for a stored upload
ServerNames == { NameDocPdf, NameUpperPdf, <<"s",".","p","d","f">> }

Formats == { <<"j","s","o","n">>, <<"c","s","v">>, <<"x","l","s","x">> }

(***************************************************************************)
(* Page records.                                                           *)
(***************************************************************************)
PageNumbers == 1..MaxPages

Page(n, text) ==
    [ page_number |-> n, analyze_contents |-> text,
      optimized_details |-> Null, is_important |-> Null ]

\* the text the extraction reports for page n
ExtractedTexts == << "text of page 1", "text of page 2", "text of page 3",
                     "text of page 4" >>
ExtractedText(n) == ExtractedTexts[n]

Range(q) == { q[i] : i \in 1..Len(q) }

\* the sequences without repetition over S of length at most k
RECURSIVE InjSeqs(_, _)
InjSeqs(S, k) ==
    IF k = 0 THEN { <<>> }
    ELSE LET shorter == InjSeqs(S, k - 1)
         IN  shorter \cup
             UNION { { Append(q, x) : x \in S \ Range(q) } :
                     q \in { r \in shorter : Len(r) = k - 1 } }

\* the pages_data arrays of an extract response: distinct page numbers, any order
ExtractPayloads ==
    { [i \in 1..Len(q) |-> Page(q[i], ExtractedText(q[i]))] :
        q \in InjSeqs(PageNumbers, MaxPages) }

(***************************************************************************)
(* What the backend may answer.                                            *)
(***************************************************************************)
ServerErrors == { "", "Invalid file" }

\* answers to POST /api/upload: rejects tells a fetch that rejects (network
\* error), ok is response.ok, json tells whether the body parses as JSON, and
\* success, filename, error are the body's fields
UploadResponses ==
    { [ rejects |-> TRUE, ok |-> FALSE, json |-> FALSE, success |-> FALSE,
        filename |-> << >>, error |-> "" ] }
    \cup { [ rejects |-> FALSE, ok |-> o, json |-> FALSE, success |-> FALSE,
             filename |-> << >>, error |-> "" ] : o \in BOOLEAN }
    \cup { [ rejects |-> FALSE, ok |-> o, json |-> TRUE, success |-> FALSE,
             filename |-> << >>, error |-> e ] :
           o \in BOOLEAN, e \in ServerErrors }
    \cup { [ rejects |-> FALSE, ok |-> o, json |-> TRUE, success |-> TRUE,
             filename |-> n, error |-> "" ] :
           o \in BOOLEAN, n \in ServerNames }

\* answers to GET /api/extract
ExtractResponses ==
    { [ rejects |-> TRUE, ok |-> FALSE, json |-> FALSE, success |-> FALSE,
        pages_data |-> <<>>, error |-> "" ] }
    \cup { [ rejects |-> FALSE, ok |-> o, json |-> FALSE, success |-> FALSE,
             pages_data |-> <<>>, error |-> "" ] : o \in BOOLEAN }
    \cup { [ rejects |-> FALSE, ok |-> o, json |-> TRUE, success |-> FALSE,
             pages_data |-> <<>>, error |-> e ] :
           o \in BOOLEAN, e \in ServerErrors }
    \cup { [ rejects |-> FALSE, ok |-> o, json |-> TRUE, success |-> TRUE,
             pages_data |-> d, error |-> "" ] :
           o \in BOOLEAN, d \in ExtractPayloads }

\* answers to a download GET
DownloadResponses ==
    { [ rejects |-> TRUE, ok |-> FALSE, json |-> FALSE, error |-> "" ],
      [ rejects |-> FALSE, ok |-> TRUE, json |-> FALSE, error |-> "" ],
      [ rejects |-> FALSE, ok |-> FALSE, json |-> FALSE, error |-> "" ] }
    \cup { [ rejects |-> FALSE, ok |-> FALSE, json |-> TRUE, error |-> e ] :
           e \in ServerErrors }

\* answers to the form POST of FileUpload: the server stores the file under
\* filename when it accepts the upload, which it signals by redirecting
FormUploadResponses ==
    { [ rejects |-> TRUE, ok |-> FALSE, redirected |-> FALSE,
        filename |-> << >> ] }
    \cup { [ rejects |-> FALSE, ok |-> o, redirected |-> FALSE,
             filename |-> << >> ] : o \in BOOLEAN }
    \cup { [ rejects |-> FALSE, ok |-> o, redirected |-> TRUE,
             filename |-> n ] : o \in BOOLEAN, n \in ServerNames }

\* answers to GET /extract and GET /review of ProcessingStatus
PageResponses ==
    { [ rejects |-> TRUE, ok |-> FALSE, redirected |-> FALSE ] }
    \cup { [ rejects |-> FALSE, ok |-> o, redirected |-> r ] :
           o \in BOOLEAN, r \in BOOLEAN }

\* the texts a user may type into the edit box
EditTexts == { "edited text" }

\* the summary and the flag the analysis backend computes for a text
SummaryOf(text) == << "summary of", text >>
ImportantOf(text) == text \notin EditTexts

\* answers to POST /analyze for a request carrying text: result is the body
AnalyzeResponses(text) ==
    { [ rejects |-> TRUE, ok |-> FALSE, json |-> FALSE,
        result |-> [ optimized_details |-> Null, is_important |-> Null ] ],
      [ rejects |-> FALSE, ok |-> FALSE, json |-> FALSE,
        result |-> [ optimized_details |-> Null, is_important |-> Null ] ],
      [ rejects |-> FALSE, ok |-> TRUE, json |-> FALSE,
        result |-> [ optimized_details |-> Null, is_important |-> Null ] ] }
    \cup { [ rejects |-> FALSE, ok |-> TRUE, json |-> TRUE,
             result |-> [ optimized_details |-> Some(SummaryOf(text)),
                          is_important |-> Some(ImportantOf(text)) ] ] }

VARIABLES
    variant,
    \* ---- variant A: Index (part_000, lines 16-23)
    file, isUploading, isExtracting, uploadedFilename, pagesData, error,
    currentStep,
    \* ---- variant B: Index (part_000, lines 379-381)
    currentState, filename, extractedData,
    \* ---- FileUpload (part_001, lines 15-17); uploadError is its error
    uploading, uploadProgress, uploadError,
    progressInterval,   \* the running handleFile's interval is alive
    leakedIntervals,    \* intervals of earlier handleFile calls still alive
    uploadedTimer,      \* the pending 500 ms timer (its filename, and the
                        \* response that set it), or Null
    \* ---- ProcessingStatus (part_002, lines 21-49); stepIndex is its
    \*      currentStep, processedData its extractedData
    stepIndex, progress, processedData, processSteps,
    processingPc,       \* where startProcessing stands
    \* ---- ResultsReview (ResultsReview.tsx, lines 33-38)
    pages, analyzing, editingPage, editContent, analysisProgress, allAnalyzed,
    analyzeReq,     \* the bag of /analyze fetches in flight
    delaying,       \* the bag of analyzeAllPages calls in their 500 ms delay:
                    \* the pages each has left in its list
    \* ---- the network and the browser
    uploadReq,      \* upload fetches in flight: the file each carries
    extractReq,     \* /api/extract fetches in flight
    downloadReq,    \* the bag of download fetches in flight: the format and
                    \* the filename of the render the call was started from
    offered         \* the name of the file the step just taken offered for
                    \* saving (a.click()), or Null

varsA == << file, isUploading, isExtracting, uploadedFilename, pagesData,
            error, currentStep >>
varsIndexB == << currentState, filename, extractedData >>
varsFileUpload == << uploading, uploadProgress, uploadError, progressInterval,
                     leakedIntervals, uploadedTimer >>
varsProcessing == << stepIndex, progress, processedData, processSteps,
                     processingPc >>
varsReview == << pages, analyzing, editingPage, editContent,
                 analysisProgress, allAnalyzed, analyzeReq, delaying >>
varsB == << varsIndexB, varsFileUpload, varsProcessing, varsReview >>
varsNet == << uploadReq, extractReq, downloadReq >>
vars == << variant, varsA, varsB, varsNet, offered >>

\* the user starts no further operation once MaxPending are outstanding, and
\* no further download once MaxDownloads are
downloading == BagCardinality(downloadReq)
pending ==
    BagCardinality(analyzeReq) + BagCardinality(delaying) + downloading

(***************************************************************************)
(* Variant A: Index (part_000, lines 15-362).                              *)
(***************************************************************************)
ErrNotPdfA == "Please select a PDF file only"
ErrTooLargeA == "File size must be less than 50MB"
ErrUploadFailedA == "Upload failed"
ErrUploadNetworkA ==
    "Network error. Please check if the backend is running on port 5000."
ErrExtractFailedA == "Extraction failed"
ErrExtractNetworkA == "Network error during extraction."
ErrDownloadFailedA == "Download failed"
ErrDownloadNetworkA == "Network error during download."

\* line 27: the name test of handleFileSelect
hasPdfName(f) == endsWith(toLowerCase(f.name), DotPdf)

\* the size test with the limit itself excluded
exceedsSizeLimitAtLimit(f) == f.size >= MaxFileSize

\* line 31, and line 47 of part_001: the size test
exceedsSizeLimit(f) == f.size > MaxFileSize

\* handleFileSelect, reached from handleDrop and handleFileInputChange, both
\* rendered in the upload step only
handleFileSelect(selectedFile) ==
    /\ variant = "A"
    /\ currentStep = "upload"
    /\ IF ~hasPdfName(selectedFile)
       THEN /\ error' = ErrNotPdfA
            /\ UNCHANGED file
       ELSE IF exceedsSizeLimit(selectedFile)
       THEN /\ error' = ErrTooLargeA
            /\ UNCHANGED file
       ELSE /\ file' = Some(selectedFile)
            /\ error' = ""
    /\ offered' = Null
    /\ UNCHANGED << variant, isUploading, isExtracting, uploadedFilename,
                    pagesData, currentStep, varsB, varsNet >>

\* uploadFile up to its await: the Upload File button is rendered when a file
\* is selected and is disabled while isUploading
uploadFile ==
    /\ variant = "A"
    /\ currentStep = "upload"
    /\ file # Null
    /\ ~isUploading
    /\ isUploading' = TRUE
    /\ error' = ""
    /\ uploadReq' = Append(uploadReq, The(file))
    /\ offered' = Null
    /\ UNCHANGED << variant, file, isExtracting, uploadedFilename, pagesData,
                    currentStep, varsB, extractReq, downloadReq >>

\* line 72: what uploadFile takes for a successful upload
uploadSucceeded(response) == response.ok /\ response.success

\* a successful upload that goes straight to the review step
stepSkippingExtract == "review"

\* line 74: the step a successful upload leads to
stepAfterUpload == "extract"

\* an uploadFile that leaves the flag set
uploadingStuck == TRUE

\* line 86: the finally block of uploadFile
uploadingAfterResponse == FALSE

\* uploadFile from the fetch's completion on; response.json() throws on a body
\* that is not JSON, which the catch block reports like a network error
uploadFileResponse(response) ==
    /\ variant = "A"
    /\ uploadReq # << >>
    /\ uploadReq' = Tail(uploadReq)
    /\ IF response.rejects \/ ~response.json
       THEN /\ error' = ErrUploadNetworkA
            /\ UNCHANGED << uploadedFilename, currentStep >>
       ELSE IF uploadSucceeded(response)
       THEN /\ uploadedFilename' = response.filename
            /\ currentStep' = stepAfterUpload
            /\ UNCHANGED error
       ELSE /\ error' = JsOr(response.error, ErrUploadFailedA)
            /\ UNCHANGED << uploadedFilename, currentStep >>
    /\ isUploading' = uploadingAfterResponse
    /\ offered' = Null
    /\ UNCHANGED << variant, file, isExtracting, pagesData, varsB,
                    extractReq, downloadReq >>

\* extractText up to its await: the button is disabled while isExtracting
extractText ==
    /\ variant = "A"
    /\ currentStep = "extract"
    /\ ~isExtracting
    /\ isExtracting' = TRUE
    /\ error' = ""
    /\ extractReq' = extractReq + 1
    /\ offered' = Null
    /\ UNCHANGED << variant, file, isUploading, uploadedFilename, pagesData,
                    currentStep, varsB, uploadReq, downloadReq >>

\* line 104: the step a successful extraction leads to
stepAfterExtract == "review"

\* extractText from the fetch's completion on
extractTextResponse(response) ==
    /\ variant = "A"
    /\ extractReq > 0
    /\ extractReq' = extractReq - 1
    /\ IF response.rejects \/ ~response.json
       THEN /\ error' = ErrExtractNetworkA
            /\ UNCHANGED << pagesData, currentStep >>
       ELSE IF response.ok /\ response.success
       THEN /\ pagesData' = response.pages_data
            /\ currentStep' = stepAfterExtract
            /\ UNCHANGED error
       ELSE /\ error' = JsOr(response.error, ErrExtractFailedA)
            /\ UNCHANGED << pagesData, currentStep >>
    /\ isExtracting' = FALSE
    /\ offered' = Null
    /\ UNCHANGED << variant, file, isUploading, uploadedFilename, varsB,
                    uploadReq, downloadReq >>

\* lines 300-320: the review block with its download and Start Over buttons
reviewRenderedA == currentStep = "review" /\ Len(pagesData) > 0

\* lines 129 of ResultsReview.tsx and 173 of part_000: the download's name
downloadName(name, format) == replace(name, DotPdf, << >>) \o <<".">> \o format

\* downloadResults up to its await; the running call keeps the
\* uploadedFilename of the render it was started from
downloadResultsA(format) ==
    /\ variant = "A"
    /\ reviewRenderedA
    /\ downloading < MaxDownloads
    /\ pending < MaxPending
    /\ downloadReq' = BagAdd(downloadReq, [ format |-> format,
                                            filename |-> uploadedFilename ])
    /\ offered' = Null
    /\ UNCHANGED << variant, varsA, varsB, uploadReq, extractReq >>

\* downloadResults from the fetch's completion on; on a response that is not
\* ok, response.json() throws when the body is not JSON
downloadResultsResponseA(request, response) ==
    /\ variant = "A"
    /\ BagIn(request, downloadReq)
    /\ downloadReq' = BagRemove(downloadReq, request)
    /\ IF response.rejects
       THEN /\ error' = ErrDownloadNetworkA
            /\ offered' = Null
       ELSE IF response.ok
       THEN /\ offered' = Some(downloadName(request.filename,
                                            request.format))
            /\ UNCHANGED error
       ELSE IF ~response.json
       THEN /\ error' = ErrDownloadNetworkA
            /\ offered' = Null
       ELSE /\ error' = JsOr(response.error, ErrDownloadFailedA)
            /\ offered' = Null
    /\ UNCHANGED << variant, file, isUploading, isExtracting, uploadedFilename,
                    pagesData, currentStep, varsB, uploadReq, extractReq >>

\* resetProcess: the Start Over button of the review block
resetProcess ==
    /\ variant = "A"
    /\ reviewRenderedA
    /\ file' = Null
    /\ uploadedFilename' = << >>
    /\ pagesData' = << >>
    /\ error' = ""
    /\ currentStep' = "upload"
    /\ offered' = Null
    /\ UNCHANGED << variant, isUploading, isExtracting, varsB, varsNet >>

NextA ==
    \/ \E f \in Files : handleFileSelect(f)
    \/ uploadFile
    \/ \E r \in UploadResponses : uploadFileResponse(r)
    \/ extractText
    \/ \E r \in ExtractResponses : extractTextResponse(r)
    \/ \E fmt \in Formats : downloadResultsA(fmt)
    \/ \E q \in BagToSet(downloadReq) : \E r \in DownloadResponses :
           downloadResultsResponseA(q, r)
    \/ resetProcess

(***************************************************************************)
(* Variant B: FileUpload (part_001).                                       *)
(***************************************************************************)
ErrNotPdfB == "Please upload a PDF file only."
ErrTooLargeB == "File size must be less than 50MB."
ErrUploadFailedB == "Upload failed. Please try again."

\* line 42: the type test of handleFile
hasPdfType(f) == includes(f.type, Pdf)

\* the state FileUpload is constructed with, and returns to when unmounted
FileUploadInitial ==
    /\ uploading' = FALSE
    /\ uploadProgress' = 0
    /\ uploadError' = Null
    /\ progressInterval' = FALSE
    /\ leakedIntervals' = 0
    /\ uploadedTimer' = Null

\* handleFile up to its await, reached from handleDrop and handleFileSelect;
\* the drop zone and the file input are rendered only while not uploading
handleFile(f) ==
    /\ variant = "B"
    /\ currentState = "upload"
    /\ ~uploading
    /\ IF ~hasPdfType(f)
       THEN /\ uploadError' = Some(ErrNotPdfB)
            /\ UNCHANGED << uploading, uploadProgress, progressInterval,
                            uploadReq >>
       ELSE IF exceedsSizeLimit(f)
       THEN /\ uploadError' = Some(ErrTooLargeB)
            /\ UNCHANGED << uploading, uploadProgress, progressInterval,
                            uploadReq >>
       ELSE /\ leakedIntervals < MaxIntervals
            /\ uploadError' = Null
            /\ uploading' = TRUE
            /\ uploadProgress' = 0
            /\ progressInterval' = TRUE
            /\ uploadReq' = Append(uploadReq, f)
    /\ offered' = Null
    /\ UNCHANGED << variant, varsA, varsIndexB, leakedIntervals, uploadedTimer,
                    varsProcessing, varsReview, extractReq, downloadReq >>

\* lines 62-70: one tick of a progress interval, the running call's (own) or
\* one left alive by a call whose fetch rejected
progressTick(own) ==
    /\ variant = "B"
    /\ IF own THEN progressInterval ELSE leakedIntervals > 0
    /\ IF uploadProgress >= 90
       THEN /\ uploadProgress' = 90
            /\ IF own
               THEN progressInterval' = FALSE /\ UNCHANGED leakedIntervals
               ELSE leakedIntervals' = leakedIntervals - 1
                    /\ UNCHANGED progressInterval
       ELSE /\ uploadProgress' = uploadProgress + 10
            /\ UNCHANGED << progressInterval, leakedIntervals >>
    /\ offered' = Null
    /\ UNCHANGED << variant, varsA, varsIndexB, uploading, uploadError,
                    uploadedTimer, varsProcessing, varsReview, varsNet >>

\* line 80: what handleFile takes for a successful upload
formUploadSucceeded(response) == response.redirected

\* line 82: the filename handleFile passes on
uploadedName(f, response) == f.name

\* handleFile from the fetch's completion on; a rejected fetch skips
\* clearInterval (line 77)
handleFileResponse(response) ==
    /\ variant = "B"
    /\ uploadReq # << >>
    /\ uploadReq' = Tail(uploadReq)
    /\ progressInterval' = FALSE
    /\ IF response.rejects
       THEN /\ uploadError' = Some(ErrUploadFailedB)
            /\ uploading' = FALSE
            /\ uploadProgress' = 0
            /\ leakedIntervals' =
                   leakedIntervals + (IF progressInterval THEN 1 ELSE 0)
            /\ UNCHANGED uploadedTimer
       ELSE IF formUploadSucceeded(response)
       THEN /\ uploadProgress' = 100
            /\ uploadedTimer' =
                   Some([ filename |-> uploadedName(Head(uploadReq), response),
                          response |-> response ])
            /\ UNCHANGED << uploadError, uploading, leakedIntervals >>
       ELSE /\ uploadError' = Some(ErrUploadFailedB)
            /\ uploading' = FALSE
            /\ uploadProgress' = 0
            /\ UNCHANGED << uploadedTimer, leakedIntervals >>
    /\ offered' = Null
    /\ UNCHANGED << variant, varsA, varsIndexB, varsProcessing, varsReview,
                    extractReq, downloadReq >>

(***************************************************************************)
(* Variant B: ProcessingStatus (part_002).                                 *)
(***************************************************************************)
\* lines 25-47: the steps extract, analyze, complete
InitialSteps == << "pending", "pending", "pending" >>

\* an update that takes the step's number (from 1) for its index (from 0)
updateStepStatusOffByOne(prev, stepIndexArg, status) ==
    [ index \in 1..Len(prev) |->
        IF index = stepIndexArg THEN status ELSE prev[index] ]

\* lines 55-59
updateStepStatus(prev, stepIndexArg, status) ==
    [ index \in 1..Len(prev) |->
        IF index - 1 = stepIndexArg THEN status ELSE prev[index] ]

\* line 21: the currentStep of the render startProcessing was created in, which
\* is the one its catch block reads (line 112)
initialStepIndex == 0

\* lines 116-132
SampleText1 == "Sample extracted Thai text from page 1..."
SampleText2 == "Sample extracted Thai text from page 2..."
simulateDataExtraction == << Page(1, SampleText1), Page(2, SampleText2) >>

\* the state ProcessingStatus is constructed with, and returns to when unmounted
ProcessingInitial ==
    /\ stepIndex' = initialStepIndex
    /\ progress' = 0
    /\ processedData' = << >>
    /\ processSteps' = InitialSteps
    /\ processingPc' = "unmounted"

\* handleFileUploaded (lines 383-386), called by the 500 ms timer of
\* handleFile; FileUpload is unmounted, ProcessingStatus is mounted and its
\* effect runs startProcessing up to the first await (lines 51-67)
handleFileUploaded ==
    /\ variant = "B"
    /\ uploadedTimer # Null
    /\ filename' = The(uploadedTimer).filename
    /\ currentState' = "processing"
    /\ FileUploadInitial
    /\ stepIndex' = 0
    /\ processSteps' = updateStepStatus(InitialSteps, 0, "processing")
    /\ processingPc' = "extract"
    /\ offered' = Null
    /\ UNCHANGED << variant, varsA, extractedData, progress, processedData,
                    varsReview, varsNet >>

\* startProcessing from the completion of fetch('/extract') on
extractResponse(response) ==
    /\ variant = "B"
    /\ processingPc = "extract"
    /\ IF response.rejects
       THEN /\ processSteps' =
                   updateStepStatus(processSteps, initialStepIndex, "error")
            /\ processingPc' = "returned"
            /\ UNCHANGED << stepIndex, progress >>
       ELSE IF response.redirected
       THEN /\ processSteps' =
                   updateStepStatus(
                       updateStepStatus(processSteps, 0, "completed"),
                       1, "processing")
            /\ progress' = 33
            /\ stepIndex' = 1
            /\ processingPc' = "review"
       ELSE /\ processingPc' = "returned"
            /\ UNCHANGED << processSteps, stepIndex, progress >>
    /\ offered' = Null
    /\ UNCHANGED << variant, varsA, varsIndexB, varsFileUpload, processedData,
                    varsReview, varsNet >>

\* startProcessing from the completion of fetch('/review') on
reviewResponse(response) ==
    /\ variant = "B"
    /\ processingPc = "review"
    /\ IF response.rejects
       THEN /\ processSteps' =
                   updateStepStatus(processSteps, initialStepIndex, "error")
            /\ processingPc' = "returned"
            /\ UNCHANGED << stepIndex, progress, processedData >>
       ELSE IF response.ok
       THEN /\ processedData' = simulateDataExtraction
            /\ processSteps' =
                   updateStepStatus(
                       updateStepStatus(processSteps, 1, "completed"),
                       2, "processing")
            /\ progress' = 66
            /\ stepIndex' = 2
            /\ processingPc' = "finalizing"
       ELSE /\ processingPc' = "returned"
            /\ UNCHANGED << processSteps, stepIndex, progress, processedData >>
    /\ offered' = Null
    /\ UNCHANGED << variant, varsA, varsIndexB, varsFileUpload, varsReview,
                    varsNet >>

\* lines 99-107: the 1000 ms of simulated final processing have passed
finalizeElapsed ==
    /\ variant = "B"
    /\ processingPc = "finalizing"
    /\ processSteps' = updateStepStatus(processSteps, 2, "completed")
    /\ progress' = 100
    /\ processingPc' = "completing"
    /\ offered' = Null
    /\ UNCHANGED << variant, varsA, varsIndexB, varsFileUpload, stepIndex,
                    processedData, varsReview, varsNet >>

(***************************************************************************)
(* Variant B: ResultsReview (src/components/ResultsReview.tsx).            *)
(***************************************************************************)
\* line 41
analyzedCount(ps) ==
    Len(SelectSeq(ps, LAMBDA pg : pg.optimized_details # Null))

\* lines 42-43, the effect that runs after every change of pages; pages is
\* never empty here, simulateDataExtraction yields two records
progressOf(ps) == (analyzedCount(ps) * 100) \div Len(ps)
allAnalyzedOf(ps) == analyzedCount(ps) = Len(ps)

\* handleProcessingComplete (lines 392-395), called by the timer of line 105
\* with simulatedData, the array startProcessing also put into its
\* extractedData; ProcessingStatus is unmounted, ResultsReview is mounted with
\* the data and its effect (lines 40-44) runs
handleProcessingComplete ==
    /\ variant = "B"
    /\ processingPc = "completing"
    /\ extractedData' = processedData
    /\ currentState' = "review"
    /\ ProcessingInitial
    /\ pages' = extractedData'
    /\ analysisProgress' = progressOf(pages')
    /\ allAnalyzed' = allAnalyzedOf(pages')
    /\ offered' = Null
    /\ UNCHANGED << variant, varsA, filename, varsFileUpload, analyzing,
                    editingPage, editContent, analyzeReq, delaying, varsNet >>

\* lines 47-59: analyzeContent up to its await.  batch is Null when the
\* page's button or saveEdit calls it; when analyzeAllPages calls and awaits
\* it, batch holds the pages analyzeAllPages has left in its list
analyzeContentStart(pageNumber, content, batch) ==
    /\ analyzing' = Append(analyzing, pageNumber)
    /\ analyzeReq' = BagAdd(analyzeReq, [ page_number |-> pageNumber,
                                          text |-> content, batch |-> batch ])

\* a merge that drops a result computed from a text the page no longer has
mergeAnalysisOfCurrentText(prev, pageNumber, analysisResult) ==
    [ i \in 1..Len(prev) |->
        IF /\ prev[i].page_number = pageNumber
           /\ analysisResult.optimized_details
                  = Some(SummaryOf(prev[i].analyze_contents))
        THEN [ prev[i] EXCEPT
                 !.optimized_details = analysisResult.optimized_details,
                 !.is_important = analysisResult.is_important ]
        ELSE prev[i] ]

\* a merge that does not look at the page number
mergeAnalysisEveryPage(prev, pageNumber, analysisResult) ==
    [ i \in 1..Len(prev) |->
        [ prev[i] EXCEPT
            !.optimized_details = analysisResult.optimized_details,
            !.is_important = analysisResult.is_important ] ]

\* a merge that filters instead of mapping: only the analysed page is kept
mergeAnalysisDroppingOthers(prev, pageNumber, analysisResult) ==
    LET kept == SelectSeq(prev, LAMBDA pg : pg.page_number = pageNumber)
    IN  [ i \in 1..Len(kept) |->
            [ kept[i] EXCEPT
                !.optimized_details = analysisResult.optimized_details,
                !.is_important = analysisResult.is_important ] ]

\* lines 64-72: the update a successful analysis applies to pages
mergeAnalysis(prev, pageNumber, analysisResult) ==
    [ i \in 1..Len(prev) |->
        IF prev[i].page_number = pageNumber
        THEN [ prev[i] EXCEPT
                 !.optimized_details = analysisResult.optimized_details,
                 !.is_important = analysisResult.is_important ]
        ELSE prev[i] ]

\* a completion that leaves the mark
clearAnalyzingNothing(prev, pageNumber) == prev

\* line 77: the update the finally block applies to analyzing
clearAnalyzing(prev, pageNumber) ==
    SelectSeq(prev, LAMBDA pn : pn # pageNumber)

\* the per-page analyze button (lines 294-301), rendered for a page that is
\* not being edited and disabled while the page is in analyzing
analyzeButton(i) ==
    /\ variant = "B"
    /\ currentState = "review"
    /\ i \in 1..Len(pages)
    /\ editingPage # Some(pages[i].page_number)
    /\ \A k \in 1..Len(analyzing) : analyzing[k] # pages[i].page_number
    /\ pending < MaxPending
    /\ analyzeContentStart(pages[i].page_number, pages[i].analyze_contents,
                           Null)
    /\ offered' = Null
    /\ UNCHANGED << variant, varsA, varsIndexB, varsFileUpload, varsProcessing,
                    pages, editingPage, editContent, analysisProgress,
                    allAnalyzed, delaying, varsNet >>

\* analyzeContent from the fetch's completion on (lines 61-78); the
\* analyzeAllPages call that awaits it goes on to its delay (line 87)
analyzeContentResponse(request, response) ==
    /\ variant = "B"
    /\ BagIn(request, analyzeReq)
    /\ response \in AnalyzeResponses(request.text)
    /\ analyzeReq' = BagRemove(analyzeReq, request)
    /\ IF ~response.rejects /\ response.ok /\ response.json
       THEN pages' = mergeAnalysis(pages, request.page_number, response.result)
       ELSE pages' = pages
    /\ analysisProgress' = progressOf(pages')
    /\ allAnalyzed' = allAnalyzedOf(pages')
    /\ analyzing' = clearAnalyzing(analyzing, request.page_number)
    /\ delaying' = IF request.batch = Null
                   THEN delaying
                   ELSE BagAdd(delaying, The(request.batch))
    /\ offered' = Null
    /\ UNCHANGED << variant, varsA, varsIndexB, varsFileUpload, varsProcessing,
                    editingPage, editContent, varsNet >>

\* line 82: the pages analyzeAllPages sets out to analyze
unanalyzedPages(ps) == SelectSeq(ps, LAMBDA pg : pg.optimized_details = Null)

\* line 181: the Analyze All button is disabled
analyzeAllDisabled == Len(analyzing) > 0 \/ allAnalyzed

\* analyzeAllPages up to its first await (lines 81-85)
analyzeAllPages ==
    /\ variant = "B"
    /\ currentState = "review"
    /\ ~analyzeAllDisabled
    /\ pending < MaxPending
    /\ LET todo == unanalyzedPages(pages)
       IN  IF todo = << >>
           THEN UNCHANGED << analyzing, analyzeReq >>
           ELSE analyzeContentStart(Head(todo).page_number,
                                    Head(todo).analyze_contents,
                                    Some(Tail(todo)))
    /\ offered' = Null
    /\ UNCHANGED << variant, varsA, varsIndexB, varsFileUpload, varsProcessing,
                    pages, editingPage, editContent, analysisProgress,
                    allAnalyzed, delaying, varsNet >>

\* lines 84-88: the 500 ms delay of an analyzeAllPages call with the pages
\* rest left has passed; the next page is analyzed, or the call returns
analyzeAllNext(rest) ==
    /\ variant = "B"
    /\ BagIn(rest, delaying)
    /\ delaying' = BagRemove(delaying, rest)
    /\ IF rest = << >>
       THEN UNCHANGED << analyzing, analyzeReq >>
       ELSE analyzeContentStart(Head(rest).page_number,
                                Head(rest).analyze_contents,
                                Some(Tail(rest)))
    /\ offered' = Null
    /\ UNCHANGED << variant, varsA, varsIndexB, varsFileUpload, varsProcessing,
                    pages, editingPage, editContent, analysisProgress,
                    allAnalyzed, varsNet >>

\* lines 91-94: the edit button of a page that is not being edited
startEditing(i) ==
    /\ variant = "B"
    /\ currentState = "review"
    /\ i \in 1..Len(pages)
    /\ editingPage # Some(pages[i].page_number)
    /\ editingPage' = Some(pages[i].page_number)
    /\ editContent' = pages[i].analyze_contents
    /\ offered' = Null
    /\ UNCHANGED << variant, varsA, varsIndexB, varsFileUpload, varsProcessing,
                    pages, analyzing, analysisProgress, allAnalyzed, analyzeReq,
                    delaying, varsNet >>

\* line 314: typing into the edit box of the page being edited
changeEditContent(text) ==
    /\ variant = "B"
    /\ currentState = "review"
    /\ \E i \in 1..Len(pages) : editingPage = Some(pages[i].page_number)
    /\ editContent' = text
    /\ offered' = Null
    /\ UNCHANGED << variant, varsA, varsIndexB, varsFileUpload, varsProcessing,
                    pages, analyzing, editingPage, analysisProgress,
                    allAnalyzed, analyzeReq, delaying, varsNet >>

\* a commit that keeps the analysis of the old text
commitEditKeepingAnalysis(prev, pageNumber, content) ==
    [ i \in 1..Len(prev) |->
        IF prev[i].page_number = pageNumber
        THEN [ prev[i] EXCEPT !.analyze_contents = content ]
        ELSE prev[i] ]

\* lines 99-103: the update saveEdit applies to pages
commitEdit(prev, pageNumber, content) ==
    [ i \in 1..Len(prev) |->
        IF prev[i].page_number = pageNumber
        THEN [ prev[i] EXCEPT !.analyze_contents = content,
                              !.optimized_details = Null,
                              !.is_important = Null ]
        ELSE prev[i] ]

\* saveEdit (lines 96-110), the save button of the page being edited
saveEdit ==
    /\ variant = "B"
    /\ currentState = "review"
    /\ \E i \in 1..Len(pages) : editingPage = Some(pages[i].page_number)
    /\ pending < MaxPending
    /\ pages' = commitEdit(pages, The(editingPage), editContent)
    /\ analysisProgress' = progressOf(pages')
    /\ allAnalyzed' = allAnalyzedOf(pages')
    /\ editingPage' = Null
    /\ editContent' = ""
    /\ analyzeContentStart(The(editingPage), editContent, Null)
    /\ offered' = Null
    /\ UNCHANGED << variant, varsA, varsIndexB, varsFileUpload, varsProcessing,
                    delaying, varsNet >>

\* a cancel that writes the buffer into the page
cancelEditCommitting ==
    /\ variant = "B"
    /\ currentState = "review"
    /\ \E i \in 1..Len(pages) : editingPage = Some(pages[i].page_number)
    /\ pages' = commitEdit(pages, The(editingPage), editContent)
    /\ analysisProgress' = progressOf(pages')
    /\ allAnalyzed' = allAnalyzedOf(pages')
    /\ editingPage' = Null
    /\ editContent' = ""
    /\ offered' = Null
    /\ UNCHANGED << variant, varsA, varsIndexB, varsFileUpload, varsProcessing,
                    analyzing, analyzeReq, delaying, varsNet >>

\* cancelEdit (lines 112-115), the cancel button of the page being edited
cancelEdit ==
    /\ variant = "B"
    /\ currentState = "review"
    /\ \E i \in 1..Len(pages) : editingPage = Some(pages[i].page_number)
    /\ editingPage' = Null
    /\ editContent' = ""
    /\ offered' = Null
    /\ UNCHANGED << variant, varsA, varsIndexB, varsFileUpload, varsProcessing,
                    pages, analyzing, analysisProgress, allAnalyzed, analyzeReq,
                    delaying, varsNet >>

\* downloadResults (lines 117-122) up to its await; the download buttons are
\* disabled unless allAnalyzed
downloadResultsB(format) ==
    /\ variant = "B"
    /\ currentState = "review"
    /\ allAnalyzed
    /\ downloading < MaxDownloads
    /\ pending < MaxPending
    /\ downloadReq' = BagAdd(downloadReq, [ format |-> format,
                                            filename |-> filename ])
    /\ offered' = Null
    /\ UNCHANGED << variant, varsA, varsB, uploadReq, extractReq >>

\* downloadResults from the fetch's completion on (lines 124-137)
downloadResultsResponseB(request, response) ==
    /\ variant = "B"
    /\ BagIn(request, downloadReq)
    /\ downloadReq' = BagRemove(downloadReq, request)
    /\ IF ~response.rejects /\ response.ok
       THEN offered' = Some(downloadName(request.filename,
                                            request.format))
       ELSE offered' = Null
    /\ UNCHANGED << variant, varsA, varsB, uploadReq, extractReq >>

NextB ==
    \/ \E f \in Files : handleFile(f)
    \/ \E own \in BOOLEAN : progressTick(own)
    \/ \E r \in FormUploadResponses : handleFileResponse(r)
    \/ handleFileUploaded
    \/ \E r \in PageResponses : extractResponse(r)
    \/ \E r \in PageResponses : reviewResponse(r)
    \/ finalizeElapsed
    \/ handleProcessingComplete
    \/ \E i \in 1..Len(pages) : analyzeButton(i)
    \/ \E q \in BagToSet(analyzeReq) : \E r \in AnalyzeResponses(q.text) :
           analyzeContentResponse(q, r)
    \/ analyzeAllPages
    \/ \E rest \in BagToSet(delaying) : analyzeAllNext(rest)
    \/ \E i \in 1..Len(pages) : startEditing(i)
    \/ \E t \in EditTexts : changeEditContent(t)
    \/ saveEdit
    \/ cancelEdit
    \/ \E fmt \in Formats : downloadResultsB(fmt)
    \/ \E q \in BagToSet(downloadReq) : \E r \in DownloadResponses :
           downloadResultsResponseB(q, r)

Init ==
    /\ variant \in { "A", "B" }
    /\ file = Null
    /\ isUploading = FALSE
    /\ isExtracting = FALSE
    /\ uploadedFilename = << >>
    /\ pagesData = << >>
    /\ error = ""
    /\ currentStep = "upload"
    /\ currentState = "upload"
    /\ filename = << >>
    /\ extractedData = << >>
    /\ uploading = FALSE
    /\ uploadProgress = 0
    /\ uploadError = Null
    /\ progressInterval = FALSE
    /\ leakedIntervals = 0
    /\ uploadedTimer = Null
    /\ stepIndex = initialStepIndex
    /\ progress = 0
    /\ processedData = << >>
    /\ processSteps = InitialSteps
    /\ processingPc = "unmounted"
    /\ pages = << >>
    /\ analyzing = << >>
    /\ editingPage = Null
    /\ editContent = ""
    /\ analysisProgress = 0
    /\ allAnalyzed = FALSE
    /\ analyzeReq = EmptyBag
    /\ delaying = EmptyBag
    /\ uploadReq = << >>
    /\ extractReq = 0
    /\ downloadReq = EmptyBag
    /\ offered = Null

Next == NextA \/ NextB

Spec == Init /\ [][Next]_vars

(***************************************************************************)
(* Properties of the upload stage.                                         *)
(***************************************************************************)
\* README, Supported Formats (part_003, line 93)
AcceptedExtensions ==
    { <<"p","d","f">>, <<"j","p","g">>, <<"j","p","e","g">>, <<"p","n","g">>,
      <<"b","m","p">>, <<"t","i","f","f">>, <<"t","i","f">> }

\* the extension of a file name: what follows its last dot, in lower case
extensionOf(name) ==
    IF Occurrences(name, <<".">>) = {}
    THEN << >>
    ELSE LET last == CHOOSE k \in Occurrences(name, <<".">>) :
                         \A j \in Occurrences(name, <<".">>) : j <= k
         IN  toLowerCase(SubSeq(name, last + 1, Len(name)))

\* C1: a file whose extension is not in the accepted set is rejected with an
\* error that the user sees, and no upload request is issued for it: in
\* variant A it is not selected, so that uploadFile cannot send it, and in
\* variant B handleFile sends nothing
C1_UnacceptedExtensionRejected ==
    [][ \A f \in Files :
          extensionOf(f.name) \notin AcceptedExtensions =>
            /\ handleFileSelect(f) =>
                 error' # "" /\ file' = file /\ uploadReq' = uploadReq
            /\ handleFile(f) =>
                 uploadError' # Null /\ ~uploading' /\ uploadReq' = uploadReq
      ]_vars

\* C2: a file larger than 50MB gets an error and no request is issued for it
\* (variant A does not select it, variant B sends nothing), no file in an
\* upload request is larger than 50MB, and a file of exactly 50MB that passes
\* the type test is taken: selected in variant A, sent in variant B
C2_SizeLimit ==
    [][ /\ \A f \in Files :
             f.size > 50 * 1024 * 1024 =>
               /\ handleFileSelect(f) =>
                    error' # "" /\ file' = file /\ uploadReq' = uploadReq
               /\ handleFile(f) =>
                    uploadError' # Null /\ ~uploading' /\ uploadReq' = uploadReq
        /\ \A f \in Files :
             f.size = 50 * 1024 * 1024 =>
               /\ (handleFileSelect(f) /\ hasPdfName(f)) =>
                    file' = Some(f) /\ error' = ""
               /\ (handleFile(f) /\ hasPdfType(f)) =>
                    uploadError' = Null /\ uploadReq' = Append(uploadReq, f)
        /\ \A i \in 1..Len(uploadReq') :
             uploadReq'[i].size <= 50 * 1024 * 1024
      ]_vars

\* a file of exactly 50MB is being uploaded after a larger one was refused
C2_Witness ==
    /\ variant = "A"
    /\ uploadReq # << >>
    /\ Head(uploadReq).size = 50 * 1024 * 1024
    /\ error = ErrTooLargeA

\* the upload responses that report success: in variant A a JSON body with
\* the success flag on a 2xx status, in variant B (a form POST, whose answer
\* has no such body) the redirect by which the server signals that it has
\* stored the file
reportsSuccessA(r) == ~r.rejects /\ r.json /\ r.ok /\ r.success
reportsSuccessB(r) == ~r.rejects /\ r.redirected

\* C3: a successful upload response moves the controller from the upload stage
\* to the next one with the filename that response reports, and the stage
\* leaves upload in no other way; in variant B the move is made by the timer
\* the response has set
C3_SuccessfulUploadMovesOn ==
    [][ /\ \A r \in UploadResponses :
             (uploadFileResponse(r) /\ reportsSuccessA(r)) =>
               /\ currentStep = "upload"
               /\ currentStep' = "extract"
               /\ uploadedFilename' = r.filename
        /\ (currentStep = "upload" /\ currentStep' # "upload") =>
             \E r \in UploadResponses :
                 uploadFileResponse(r) /\ reportsSuccessA(r)
        /\ handleFileUploaded =>
             /\ reportsSuccessB(The(uploadedTimer).response)
             /\ currentState = "upload"
             /\ currentState' = "processing"
             /\ filename' = The(uploadedTimer).response.filename
        /\ (currentState = "upload" /\ currentState' # "upload") =>
             handleFileUploaded
      ]_vars

\* C4: when an upload fails (the fetch rejects or the response does not
\* report success) the stage stays upload, an error message that is not empty
\* is set, the uploading flag is cleared, no filename is stored, and the
\* control that starts an upload is available again
C4_FailedUploadStays ==
    [][ /\ \A r \in UploadResponses :
             (uploadFileResponse(r) /\ ~reportsSuccessA(r)) =>
               /\ currentStep = "upload" /\ currentStep' = "upload"
               /\ error' # ""
               /\ ~isUploading'
               /\ uploadedFilename' = << >>
               /\ file' # Null
        /\ \A r \in FormUploadResponses :
             (handleFileResponse(r) /\ ~reportsSuccessB(r)) =>
               /\ currentState = "upload" /\ currentState' = "upload"
               /\ uploadError' # Null /\ The(uploadError') # ""
               /\ ~uploading'
               /\ filename' = << >> /\ uploadedTimer' = Null
      ]_vars

\* an upload has failed with the server's refusal and the file can be sent again
C4_Witness ==
    /\ variant = "A"
    /\ currentStep = "upload"
    /\ error = "Invalid file"
    /\ uploadReq = << >>
    /\ file # Null
    /\ ~isUploading

(***************************************************************************)
(* Properties of the top-level controller.                                 *)
(***************************************************************************)
\* C5: the stage moves forward one step at a time, upload to extract (or
\* processing) to review, whatever response arrives when; it moves backward
\* only by resetProcess, which goes to upload
C5_StageMovesForward ==
    [][ /\ currentStep' # currentStep =>
             \/ currentStep = "upload" /\ currentStep' = "extract"
             \/ currentStep = "extract" /\ currentStep' = "review"
             \/ resetProcess /\ currentStep' = "upload"
        /\ currentState' # currentState =>
             \/ currentState = "upload" /\ currentState' = "processing"
             \/ currentState = "processing" /\ currentState' = "review"
      ]_vars

\* the controller is back in the upload stage with a download of the run
\* before the reset still in flight
C5_Witness ==
    /\ variant = "A"
    /\ currentStep = "upload"
    /\ downloadReq # EmptyBag

\* what resetProcess leaves: the upload stage with no stage data
Cleared ==
    /\ currentStep = "upload"
    /\ file = Null
    /\ uploadedFilename = << >>
    /\ pagesData = << >>
    /\ error = ""

\* the steps of variant A that the user takes
userActionA ==
    \/ \E f \in Files : handleFileSelect(f)
    \/ uploadFile
    \/ extractText
    \/ \E fmt \in Formats : downloadResultsA(fmt)
    \/ resetProcess

\* C6: resetProcess leaves the upload stage with the selected file null, the
\* uploaded filename empty, the page collection empty and the error empty,
\* and once a reset has left this state it lasts until the user acts, also
\* when a request started before the reset completes
C6_ResetClearsUntilUserActs ==
    [][ /\ resetProcess => Cleared'
        /\ (variant = "A" /\ Cleared /\ ~userActionA) => Cleared'
      ]_vars

(***************************************************************************)
(* Properties of the review stage.                                         *)
(***************************************************************************)
\* C7: a successful analyze response for page p sets optimized_details and
\* is_important of the record whose page_number is p to the returned values
\* and changes nothing else: not that record's page_number and
\* analyze_contents, and no field of any other record
C7_AnalysisChangesItsPageOnly ==
    [][ \A q \in BagToSet(analyzeReq) : \A r \in AnalyzeResponses(q.text) :
          (analyzeContentResponse(q, r) /\ ~r.rejects /\ r.ok /\ r.json) =>
            /\ Len(pages') = Len(pages)
            /\ \A i \in 1..Len(pages) :
                 /\ pages'[i].page_number = pages[i].page_number
                 /\ pages'[i].analyze_contents = pages[i].analyze_contents
                 /\ IF pages[i].page_number = q.page_number
                    THEN /\ pages'[i].optimized_details =
                                r.result.optimized_details
                         /\ pages'[i].is_important = r.result.is_important
                    ELSE /\ pages'[i].optimized_details =
                                pages[i].optimized_details
                         /\ pages'[i].is_important = pages[i].is_important
      ]_vars

\* page 2 has been analyzed and page 1 has not
C7_Witness ==
    /\ Len(pages) = 2
    /\ pages[1].optimized_details = Null
    /\ pages[1].is_important = Null
    /\ pages[2].optimized_details = Some(SummaryOf(pages[2].analyze_contents))
    /\ pages[2].is_important # Null

\* C8: a page is marked analyzing exactly while an analyze call for it is in
\* flight
C8_MarkedExactlyWhileInFlight ==
    \A p \in PageNumbers :
        (\E k \in 1..Len(analyzing) : analyzing[k] = p)
            <=> (\E q \in BagToSet(analyzeReq) : q.page_number = p)

\* C9: at most one request issued by analyzeAllPages is in flight
C9_OneAnalyzeAllRequestInFlight ==
    \A q1 \in BagToSet(analyzeReq) : \A q2 \in BagToSet(analyzeReq) :
        (q1.batch # Null /\ q2.batch # Null) =>
            q1 = q2 /\ CopiesIn(q1, analyzeReq) = 1

\* C10: every request analyzeAllPages issues is for a page that lacks
\* optimized_details when the request is issued, and carries the
\* analyze_contents the page has at that time
C10_AnalyzeAllSendsCurrentUnanalyzed ==
    [][ /\ analyzeAllPages =>
             \A q \in BagToSet(analyzeReq') :
                 CopiesIn(q, analyzeReq') > CopiesIn(q, analyzeReq) =>
                     \E i \in 1..Len(pages) :
                         /\ pages[i].page_number = q.page_number
                         /\ pages[i].optimized_details = Null
                         /\ pages[i].analyze_contents = q.text
        /\ \A rest \in BagToSet(delaying) :
             (rest # << >> /\ analyzeAllNext(rest)) =>
                 \E i \in 1..Len(pages) :
                     /\ pages[i].page_number = Head(rest).page_number
                     /\ pages[i].optimized_details = Null
                     /\ pages[i].analyze_contents = Head(rest).analyze_contents
      ]_vars

\* C11: saving an edit of page p puts the edit buffer into p's
\* analyze_contents, sets p's optimized_details and is_important to null,
\* leaves edit mode and issues an analyze request for p with the new text, so
\* that the cleared fields are there while that request is in flight; no other
\* page record changes
C11_SaveEditCommitsAndReanalyzes ==
    [][ saveEdit =>
          LET p == The(editingPage)
              request == [ page_number |-> p, text |-> editContent,
                           batch |-> Null ]
          IN  /\ Len(pages') = Len(pages)
              /\ \A i \in 1..Len(pages) :
                   IF pages[i].page_number = p
                   THEN /\ pages'[i].page_number = p
                        /\ pages'[i].analyze_contents = editContent
                        /\ pages'[i].optimized_details = Null
                        /\ pages'[i].is_important = Null
                   ELSE pages'[i] = pages[i]
              /\ editingPage' = Null
              /\ editContent' = ""
              /\ CopiesIn(request, analyzeReq')
                     = CopiesIn(request, analyzeReq) + 1
              /\ BagCardinality(analyzeReq') = BagCardinality(analyzeReq) + 1
              /\ \E k \in 1..Len(analyzing') : analyzing'[k] = p
      ]_vars

\* the edit of page 1 is saved, its fields are cleared and its re-analysis is
\* in flight, while page 2 keeps its analysis
C11_Witness ==
    /\ Len(pages) = 2
    /\ pages[1].analyze_contents \in EditTexts
    /\ pages[1].optimized_details = Null
    /\ pages[1].is_important = Null
    /\ pages[2].optimized_details # Null
    /\ editingPage = Null
    /\ BagIn([ page_number |-> 1, text |-> pages[1].analyze_contents,
               batch |-> Null ], analyzeReq)

\* C12: starting an edit, typing into the buffer and cancelling change no
\* page record and issue no analyze request, and cancelling leaves edit mode
\* with an empty buffer
C12_CancelEditChangesNothing ==
    [][ /\ ( \/ \E i \in 1..Len(pages) : startEditing(i)
             \/ \E t \in EditTexts : changeEditContent(t)
             \/ cancelEdit ) =>
               pages' = pages /\ analyzeReq' = analyzeReq
                   /\ analyzing' = analyzing
        /\ cancelEdit => editingPage' = Null /\ editContent' = ""
      ]_vars

\* page 1, which is analyzed, is being edited and the buffer holds a text
\* that is not the page's
C12_Witness ==
    /\ Len(pages) = 2
    /\ editingPage = Some(1)
    /\ editContent \in EditTexts
    /\ pages[1].analyze_contents # editContent
    /\ pages[1].optimized_details # Null

\* the text page number p has in ps
textOf(ps, p) ==
    (CHOOSE pg \in Range(ps) : pg.page_number = p).analyze_contents

\* C13: in ResultsReview the download buttons are enabled only when every
\* page record has optimized_details, and after an edit of a page is saved
\* they become enabled only by the success of the analysis of the text the
\* page then has, not by the response to a request that carries an older text
C13_DownloadOnlyWhenAnalyzed ==
    [][ /\ (variant = "B" /\ currentState' = "review" /\ allAnalyzed') =>
             \A i \in 1..Len(pages') : pages'[i].optimized_details # Null
        /\ \A q \in BagToSet(analyzeReq) : \A r \in AnalyzeResponses(q.text) :
             (analyzeContentResponse(q, r) /\ ~allAnalyzed /\ allAnalyzed') =>
                 q.text = textOf(pages, q.page_number)
      ]_vars

\* a file name without its extension: what precedes its last dot
basenameOf(name) ==
    IF Occurrences(name, <<".">>) = {}
    THEN name
    ELSE LET last == CHOOSE k \in Occurrences(name, <<".">>) :
                         \A j \in Occurrences(name, <<".">>) : j <= k
         IN  SubSeq(name, 1, last - 1)

\* what the completion of a download of filename in format is to offer
expectedOffer(request, response) ==
    IF ~response.rejects /\ response.ok
    THEN Some(basenameOf(request.filename) \o <<".">> \o request.format)
    ELSE Null

\* C14: a download in format fmt issues one GET for fmt, a successful
\* response to it offers a file named after the original filename with its
\* extension replaced by fmt, and any other outcome offers no file
C14_DownloadOffersBasenameFmt ==
    [][ /\ \A fmt \in Formats :
             (downloadResultsA(fmt) \/ downloadResultsB(fmt)) =>
                 /\ BagCardinality(downloadReq')
                        = BagCardinality(downloadReq) + 1
                 /\ \E q \in BagToSet(downloadReq') :
                        /\ q.format = fmt
                        /\ CopiesIn(q, downloadReq')
                               = CopiesIn(q, downloadReq) + 1
                 /\ offered' = Null
        /\ \A q \in BagToSet(downloadReq) : \A r \in DownloadResponses :
             (downloadResultsResponseA(q, r) \/ downloadResultsResponseB(q, r))
                 => offered' = expectedOffer(q, r)
      ]_vars

\* lines 323-324 of part_000: the page cards the review block of variant A
\* shows, by page number, in the order shown
cardsA ==
    IF reviewRenderedA
    THEN [ i \in 1..Len(pagesData) |-> pagesData[i].page_number ]
    ELSE << >>

\* lines 236-237 of ResultsReview.tsx: the page cards ResultsReview shows
cardsB ==
    IF currentState = "review"
    THEN [ i \in 1..Len(pages) |-> pages[i].page_number ]
    ELSE << >>

ascending(q) == \A i \in 1..Len(q) : \A j \in 1..Len(q) : i < j => q[i] < q[j]

\* C15: after a successful extract response with N page records the review
\* stage shows N cards, one per record, in ascending order of page_number,
\* whatever the order of the records in the response
C15_CardsInPageOrder ==
    /\ (variant = "A" /\ currentStep = "review") =>
           /\ Len(cardsA) = Len(pagesData)
           /\ Range(cardsA) = { pg.page_number : pg \in Range(pagesData) }
           /\ ascending(cardsA)
    /\ (variant = "B" /\ currentState = "review") =>
           /\ Len(cardsB) = Len(extractedData)
           /\ Range(cardsB) = { pg.page_number : pg \in Range(extractedData) }
           /\ ascending(cardsB)

(***************************************************************************)
(* Properties of the processing stage.                                     *)
(***************************************************************************)
\* C16: when a step of the processing stage has failed and startProcessing
\* has returned, the step that was in progress is marked error and no step
\* is left in status processing
C16_FailedStepMarkedError ==
    (variant = "B" /\ processingPc = "returned") =>
        /\ processSteps[stepIndex + 1] = "error"
        /\ \A i \in 1..Len(processSteps) : processSteps[i] # "processing"

\* C17: while ProcessingStatus is mounted a step changes its status only from
\* pending to processing and from processing to completed or error, at most
\* one step is in status processing, and a step has left pending only if the
\* step before it is completed
C17_StepsMoveForward ==
    [][ (variant = "B" /\ currentState' = "processing") =>
          /\ \A i \in 1..Len(processSteps) :
               processSteps'[i] # processSteps[i] =>
                 \/ processSteps[i] = "pending"
                        /\ processSteps'[i] = "processing"
                 \/ processSteps[i] = "processing"
                        /\ processSteps'[i] \in { "completed", "error" }
          /\ Cardinality({ i \in 1..Len(processSteps') :
                             processSteps'[i] = "processing" }) <= 1
          /\ \A i \in 2..Len(processSteps') :
               processSteps'[i] # "pending" =>
                   processSteps'[i - 1] = "completed"
      ]_vars

\* C18: onComplete is called only when the three steps are completed and
\* progress is 100, with the page collection startProcessing obtained; the
\* controller then holds that collection and is in the review stage, and the
\* call is not made again: no timer for it is left, and nothing else changes
\* the controller's collection or takes it to the review stage
C18_OnCompleteOnceWhenDone ==
    [][ /\ handleProcessingComplete =>
             /\ currentState = "processing"
             /\ \A i \in 1..Len(processSteps) : processSteps[i] = "completed"
             /\ Len(processSteps) = 3
             /\ progress = 100
             /\ processedData = simulateDataExtraction
             /\ extractedData' = processedData
             /\ currentState' = "review"
             /\ processingPc' # "completing"
        /\ (extractedData' # extractedData \/ currentState' # currentState) =>
             (handleProcessingComplete \/ handleFileUploaded)
        /\ (variant = "B" /\ currentState' = "review") =>
             /\ processingPc' = "unmounted"
             /\ extractedData' = simulateDataExtraction
      ]_vars

\* the controller is in the review stage with the two pages it was handed
C18_Witness ==
    /\ variant = "B"
    /\ currentState = "review"
    /\ Len(extractedData) = 2
    /\ extractedData = simulateDataExtraction
    /\ processingPc = "unmounted"

(***************************************************************************)
(* Properties of concurrent analyses.                                      *)
(***************************************************************************)
\* C19: analyze responses for a page are applied as they arrive and nothing
\* cancels a request: saving an edit leaves the requests in flight as they
\* are, and the successful response to a request that carries a text the page
\* no longer has still overwrites the page's optimized_details and
\* is_important with its result
C19_StaleResponseOverwrites ==
    [][ /\ saveEdit =>
             \A q \in BagToSet(analyzeReq) :
                 CopiesIn(q, analyzeReq') >= CopiesIn(q, analyzeReq)
        /\ \A q \in BagToSet(analyzeReq) : \A r \in AnalyzeResponses(q.text) :
             ( /\ analyzeContentResponse(q, r)
               /\ ~r.rejects /\ r.ok /\ r.json
               /\ q.text # textOf(pages, q.page_number) ) =>
                 \A i \in 1..Len(pages) :
                     pages[i].page_number = q.page_number =>
                         /\ pages'[i].analyze_contents
                                = pages[i].analyze_contents
                         /\ pages'[i].optimized_details
                                = Some(SummaryOf(q.text))
                         /\ pages'[i].is_important
                                = Some(ImportantOf(q.text))
      ]_vars

\* page 1 was edited and saved while a request with its old text was in
\* flight: its optimized_details is the summary of a text it no longer has
C19_Witness ==
    /\ Len(pages) = 2
    /\ pages[1].analyze_contents \in EditTexts
    /\ pages[1].optimized_details = Some(SummaryOf(SampleText1))
    /\ pages[1].optimized_details
           # Some(SummaryOf(pages[1].analyze_contents))

\* the analyze responses that report failure: a fetch that throws, a status
\* that is not 2xx, or a body that response.json() cannot parse
analysisFailed(r) == r.rejects \/ ~r.ok \/ ~r.json

\* C20: when an analyze call for page p fails no page record changes (so a
\* page whose edit was saved keeps the new text and its null fields), p's
\* analyzing mark is cleared, and p's analyze button is enabled again
C20_FailedAnalysisChangesNothing ==
    [][ \A q \in BagToSet(analyzeReq) : \A r \in AnalyzeResponses(q.text) :
          (analyzeContentResponse(q, r) /\ analysisFailed(r)) =>
              /\ pages' = pages
              /\ allAnalyzed' = allAnalyzed
              /\ \A k \in 1..Len(analyzing') : analyzing'[k] # q.page_number
              /\ editingPage' = editingPage
      ]_vars

\* the edit of page 1 was saved and its re-analysis is over without a
\* result: the page has the new text, null fields and no mark
C20_Witness ==
    /\ Len(pages) = 2
    /\ pages[1].analyze_contents \in EditTexts
    /\ pages[1].optimized_details = Null
    /\ pages[1].is_important = Null
    /\ analyzeReq = EmptyBag
    /\ analyzing = << >>
    /\ editingPage = Null


\* the page numbers of a page collection, in the order of the collection
pageNumbersOf(ps) == [ i \in 1..Len(ps) |-> ps[i].page_number ]

unique(q) == \A i \in 1..Len(q) : \A j \in 1..Len(q) : i # j => q[i] # q[j]

\* the stage is review: currentStep of the monolithic Index, currentState of
\* the Index that mounts ResultsReview
inReview ==
    IF variant = "A" THEN currentStep = "review" ELSE currentState = "review"

\* the page collection of the review stage: pagesData of the monolithic
\* Index, the pages state of ResultsReview
reviewPages == IF variant = "A" THEN pagesData ELSE pages

\* C21: in the review stage, through every analyze-one, analyze-all,
\* start-edit, save, cancel and download action and every response, the page
\* collection keeps the length and the page_number values, in the same order,
\* of the collection the stage was entered with (for ResultsReview its data
\* prop, extractedData), and the page_numbers stay unique
C21_PageCollectionShape ==
    [][ /\ inReview' => unique(pageNumbersOf(reviewPages'))
        /\ (inReview' /\ variant = "B") =>
               pageNumbersOf(pages') = pageNumbersOf(extractedData')
        /\ (inReview /\ inReview') =>
               pageNumbersOf(reviewPages') = pageNumbersOf(reviewPages)
      ]_vars

\* ResultsReview holds a page that was edited and analysed again while
\* another page is still as extracted
C21_Witness ==
    /\ variant = "B"
    /\ currentState = "review"
    /\ \E i \in 1..Len(pages) : \E j \in 1..Len(pages) :
          /\ i # j
          /\ pages[i].analyze_contents \in EditTexts
          /\ pages[i].optimized_details # Null
          /\ pages[j] = extractedData[j]

(***************************************************************************)
(* Start Over in the monolithic Index.                                     *)
(***************************************************************************)
\* C22: in the monolithic Index, the variant with a Start Over action,
\* whenever the stage is review the Start Over action is available to the
\* user, after every successful extract response (also one whose pages_data
\* is empty), so that some user action is enabled in every review state
C22_StartOverAvailableInReview ==
    (variant = "A" /\ currentStep = "review") =>
        /\ ENABLED resetProcess
        /\ ENABLED userActionA
=============================================================================
